---- MODULE Spec2Model ----
(***************************************************************************)
(* A model of src/src/pop_exp/pop_ex_helpers.py: the UTM projection        *)
(* selector, the overlap merger and the three population-exposure          *)
(* workflows.                                                              *)
(*                                                                         *)
(* Geometry.  The world is a strip of closed unit cells, GridW columns by  *)
(* the rows GridRows.  A geometry is a finite set of cells, read as the    *)
(* closed point set that is the union of the closed cells:                 *)
(*   - its area is the number of cells;                                    *)
(*   - its single parts (what explode() / a MultiPolygon's members are)    *)
(*     are the edge-connected components: two cells that share only a      *)
(*     corner have disconnected interiors and are two polygons;            *)
(*   - two geometries intersect (the "intersects" predicate) when their    *)
(*     closed point sets share a point: a common cell, a common edge or a  *)
(*     common corner.                                                      *)
(* An identifier is a sequence of tokens; "___".join puts the token SEP    *)
(* between the identifiers it joins.                                       *)
(***************************************************************************)
EXTENDS Integers, Sequences, FiniteSets, TLC

\* ---------------------------------------------------------------- bounds
\* Number of cell columns of the modelled world.
GridW == 4
\* The cell rows of the modelled world (two rows: corner contact exists).
GridRows == {0, 1}
\* How far outside [-90,90] / [-180,180] the drawn coordinates reach.
CoordOver == 2
\* The largest buffer distance of a hazard, in cells.
MaxBufferDist == 1
\* The identifiers of the rows given to the overlap merger, in row order.
Ids == <<"A", "B", "C">>
\* The identifiers of the rows of a hazard file, in row order.
HazardIds == <<"H1", "H2">>

\* ------------------------------------------------- projection selector
\* line 24: hemisphere = 326 if lat >= 0 else 327
NorthBase == 326
SouthBase == 327
\* line 23: the width of a zone in degrees, and the offset of longitude
ZoneWidth == 6
LonOffset == 180

\* Python's floor division a // b for b > 0.
FloorDiv(a, b) == IF a >= 0 THEN a \div b ELSE -((-a + b - 1) \div b)

\* lines 22-26.  The function has one exit, the return of the formatted
\* string "EPSG:<code>"; it raises nothing for numeric input.
get_best_utm_projection(la, lo) ==
    LET zone_number == FloorDiv(lo + LonOffset, ZoneWidth) + 1
        hemisphere == IF la >= 0 THEN NorthBase ELSE SouthBase
        epsg_code == hemisphere * 100 + zone_number
    IN  [kind |-> "ok", prefix |-> "EPSG", code |-> epsg_code]

\* ------------------------------------------------------------- geometry
Cells == (0 .. GridW - 1) \X GridRows

Abs(n) == IF n < 0 THEN -n ELSE n

\* Two cells share an edge.
Adj4(c, d) == Abs(c[1] - d[1]) + Abs(c[2] - d[2]) = 1

\* Two closed cells share a point (themselves, an edge or a corner).
Touches(c, d) == Abs(c[1] - d[1]) <= 1 /\ Abs(c[2] - d[2]) <= 1

\* The order in which coordinates are written out.
CellLess(c, d) == c[1] < d[1] \/ (c[1] = d[1] /\ c[2] < d[2])

MinCell(S) == CHOOSE c \in S : \A d \in S : c = d \/ CellLess(c, d)

RECURSIVE Flood(_, _)
\* The edge-connected part of S around the cells T.
Flood(S, T) ==
    LET T2 == T \cup {d \in S : \E c \in T : Adj4(c, d)}
    IN  IF T2 = T THEN T ELSE Flood(S, T2)

RECURSIVE GetParts(_)
\* The single parts of a geometry, in the order they are stored.
GetParts(g) ==
    IF g = {} THEN <<>>
    ELSE LET p == Flood(g, {MinCell(g)})
         IN  <<p>> \o GetParts(g \ p)

\* shapely "intersects": the closed point sets share a point.
Intersects(g, h) == \E c \in g : \E d \in h : Touches(c, d)

\* The interiors share area.
Overlaps(g, h) == g \cap h # {}

RECURSIVE Wkt(_)
\* geom.wkt: the geometry written out as its coordinates in order.
Wkt(g) ==
    IF g = {} THEN <<>>
    ELSE LET c == MinCell(g) IN <<c>> \o Wkt(g \ {c})

\* wkt.loads: the geometry read back from its text.
WktLoads(w) == {w[i] : i \in DOMAIN w}

RECURSIVE WktLess(_, _)
\* The order of two geometry texts as sort keys.
WktLess(a, b) ==
    IF a = <<>> THEN b # <<>>
    ELSE IF b = <<>> THEN FALSE
    ELSE IF a[1] = b[1] THEN WktLess(Tail(a), Tail(b))
    ELSE CellLess(a[1], b[1])

\* ------------------------------------------------------- data frames
\* A frame is a sequence of rows; a row is a record with the columns id and
\* geometry (and, in the workflows, further columns).

RECURSIVE SeqMap2(_, _, _)
\* One row per part p of parts, each a copy of row with geometry p.
SeqMap2(row, parts, i) ==
    IF i > Len(parts) THEN <<>>
    ELSE <<[row EXCEPT !.geometry = parts[i]]>> \o SeqMap2(row, parts, i + 1)

RECURSIVE explode(_)
\* GeoDataFrame.explode() (lines 205, 213): every multi-part geometry becomes
\* one row per single part, the other columns repeated; rows stay in order.
explode(df) ==
    IF df = <<>> THEN <<>>
    ELSE SeqMap2(df[1], GetParts(df[1].geometry), 1) \o explode(Tail(df))

\* shapely unary_union (line 208): the point-set union of the geometries.
unary_union(df) == UNION {df[i].geometry : i \in DOMAIN df}

\* The identifier pandas shows for a left row without a match.
NaN == <<"NaN">>

RECURSIVE JoinRight(_, _, _)
\* The rows of right that intersect the geometry g, in row order from j on.
JoinRight(g, right, j) ==
    IF j > Len(right) THEN <<>>
    ELSE (IF Intersects(g, right[j].geometry)
          THEN <<[geometry |-> g, index_right |-> j, id |-> right[j].id]>>
          ELSE <<>>) \o JoinRight(g, right, j + 1)

RECURSIVE sjoin(_, _)
\* gpd.sjoin(left, right, how="left", predicate="intersects") (lines 217-219):
\* one row per pair of a left and a right row whose geometries intersect,
\* with the left geometry and the right columns; a left row without a match
\* is kept once with the right columns missing.  The matches of a left row
\* are taken in the order of the right rows.
sjoin(left, right) ==
    IF left = <<>> THEN <<>>
    ELSE LET m == JoinRight(left[1].geometry, right, 1)
         IN  (IF m = <<>>
              THEN <<[geometry |-> left[1].geometry, index_right |-> 0, id |-> NaN]>>
              ELSE m) \o sjoin(Tail(left), right)

\* The separator of merged identifiers (line 229).
SEP == <<"___">>

RECURSIVE StrJoin(_)
\* "___".join(x) (line 229).
StrJoin(x) ==
    IF x = <<>> THEN <<>>
    ELSE IF Len(x) = 1 THEN x[1]
    ELSE x[1] \o SEP \o StrJoin(Tail(x))

RECURSIVE SelectKey(_, _)
\* The identifiers of the rows of a joined frame whose key is k, in order.
SelectKey(joined, k) ==
    IF joined = <<>> THEN <<>>
    ELSE (IF joined[1].geometry_wkt = k THEN <<joined[1].id>> ELSE <<>>)
         \o SelectKey(Tail(joined), k)

RECURSIVE SortKeys(_)
\* The distinct group keys in ascending order.
SortKeys(K) ==
    IF K = {} THEN <<>>
    ELSE LET k == CHOOSE a \in K : \A b \in K : a = b \/ WktLess(a, b)
         IN  <<k>> \o SortKeys(K \ {k})

\* Every joined row yields a row of its own: the grouping left out.
groupby_agg_ungrouped(joined) ==
    [i \in DOMAIN joined |->
        [geometry_wkt |-> joined[i].geometry_wkt, id |-> joined[i].id]]

\* without_geom.groupby("geometry_wkt").agg(join).reset_index() (lines
\* 227-231): one row per distinct key, keys ascending, the identifiers of the
\* key's rows joined in the order of the rows.
groupby_agg(joined) ==
    LET keys == SortKeys({joined[i].geometry_wkt : i \in DOMAIN joined})
    IN  [n \in DOMAIN keys |->
            [geometry_wkt |-> keys[n], id |-> StrJoin(SelectKey(joined, keys[n]))]]

\* lines 198-241.
combine_overlapping_geometries(ch_df_in) ==
    LET ch == explode(ch_df_in)
        all_one_geometry == unary_union(ch)
        non_overlapping_hazards == explode(<<[geometry |-> all_one_geometry]>>)
        joined0 == sjoin(non_overlapping_hazards, ch)
        joined == [i \in DOMAIN joined0 |->
                     [geometry_wkt |-> Wkt(joined0[i].geometry), id |-> joined0[i].id]]
        without_geom == groupby_agg(joined)
    IN  [n \in DOMAIN without_geom |->
            [id |-> without_geom[n].id,
             geometry |-> WktLoads(without_geom[n].geometry_wkt)]]

\* ------------------------------------------------------- the workflows
\* A frame of a workflow is a record: crs, the coordinate system the
\* geometries are in; columns, the names of its columns; rows.

\* Where a cell lies: the columns are ZoneWidth degrees wide around the
\* prime meridian, the two rows lie either side of the equator.
CellLon(c) == ZoneWidth * c[1] - (ZoneWidth * GridW) \div 2 + ZoneWidth \div 2
CellLat(c) == IF c[2] = 0 THEN -5 ELSE 5

RECURSIVE SumOver(_, _)
\* The sum of the function f over the set S.
SumOver(S, f) ==
    IF S = {} THEN 0
    ELSE LET c == CHOOSE x \in S : TRUE IN f[c] + SumOver(S \ {c}, f)

\* ch_shp.centroid.x / .y (lines 44-45), in whole degrees.
CentroidLon(g) ==
    FloorDiv(SumOver(g, [c \in Cells |-> CellLon(c)]), Cardinality(g))
CentroidLat(g) ==
    FloorDiv(SumOver(g, [c \in Cells |-> CellLat(c)]), Cardinality(g))

\* lines 41-58: the best projection of every row, from its centroid.
add_utm_projection(rows) ==
    [i \in DOMAIN rows |->
        [id |-> rows[i].id,
         buffer_dist |-> rows[i].buffer_dist,
         geometry |-> rows[i].geometry,
         utm_projection |->
            get_best_utm_projection(CentroidLat(rows[i].geometry),
                                    CentroidLon(rows[i].geometry))]]

RECURSIVE DropEmpty(_)
\* shp_df[~shp_df["geometry"].is_empty] (line 105).
DropEmpty(rows) ==
    IF rows = <<>> THEN <<>>
    ELSE (IF rows[1].geometry = {} THEN <<>> ELSE <<rows[1]>>)
         \o DropEmpty(Tail(rows))

\* lines 92-118.  make_valid leaves the (valid) geometries as they are;
\* to_crs changes the frame of reference, not the place of a geometry.
prep_geographies(file, geo_type) ==
    LET kept == DropEmpty(file.rows)
        crs == IF file.crs # "EPSG:4326" THEN "EPSG:4326" ELSE file.crs
    IN  IF geo_type = "hazard"
        THEN [crs |-> crs,
              columns |-> {"id", "buffer_dist", "geometry", "utm_projection"},
              rows |-> add_utm_projection(kept)]
        ELSE [crs |-> crs, columns |-> file.columns, rows |-> kept]

RECURSIVE Dilate(_, _)
\* geometry.buffer(d): every place within d cells of the geometry.
Dilate(g, d) ==
    IF d = 0 THEN g
    ELSE Dilate({c \in Cells : \E e \in g : Touches(c, e)}, d - 1)

\* lines 124-147: the column buffered_hazard is written row by row, so a
\* frame without rows gets no such column.
add_buffered_geom_col(df) ==
    [crs |-> df.crs,
     columns |-> IF df.rows = <<>> THEN df.columns
                 ELSE df.columns \cup {"buffered_hazard"},
     rows |-> [i \in DOMAIN df.rows |->
                 [id |-> df.rows[i].id,
                  buffer_dist |-> df.rows[i].buffer_dist,
                  geometry |-> df.rows[i].geometry,
                  utm_projection |-> df.rows[i].utm_projection,
                  buffered_hazard |->
                     Dilate(df.rows[i].geometry, df.rows[i].buffer_dist)]]]

\* lines 352-355 and 441-444: keep the id and the buffered geometry, the
\* latter renamed geometry.
SelectBuffered(df) ==
    [crs |-> "EPSG:4326",
     columns |-> {"id", "geometry"},
     rows |-> [i \in DOMAIN df.rows |->
                 [id |-> df.rows[i].id, geometry |-> df.rows[i].buffered_hazard]]]

\* The merger runs when the flag is set: the condition inverted.
RunsMerger_inverted(flag) == flag

\* lines 357 and 446: if not by_unique_hazard
RunsMerger(flag) == ~flag

\* target_col_geom.envelope (line 259): the bounding rectangle.
Envelope(g) ==
    {c \in Cells :
        /\ \E a \in g : a[1] <= c[1]
        /\ \E a \in g : c[1] <= a[1]
        /\ \E a \in g : a[2] <= c[2]
        /\ \E a \in g : c[2] <= a[2]}

\* lines 249-262, with buffer_buffer = 0 as every caller leaves it.
add_bounding_box_col(df) ==
    [crs |-> df.crs,
     columns |-> IF df.rows = <<>> THEN df.columns
                 ELSE df.columns \cup {"bounding_box"},
     rows |-> [i \in DOMAIN df.rows |->
                 [k \in DOMAIN df.rows[i] \cup {"bounding_box"} |->
                     IF k = "bounding_box"
                     THEN Dilate(Envelope(df.rows[i].geometry), 0)
                     ELSE df.rows[i][k]]]]

RECURSIVE OverlayRow(_, _, _)
\* The pieces of the hazard row h in the unit rows from j on.
OverlayRow(h, units, j) ==
    IF j > Len(units) THEN <<>>
    ELSE (IF Overlaps(h.geometry, units[j].geometry)
          THEN <<[id |-> h.id, unit_id |-> units[j].id,
                  geometry |-> h.geometry \cap units[j].geometry]>>
          ELSE <<>>) \o OverlayRow(h, units, j + 1)

RECURSIVE OverlayRows(_, _)
OverlayRows(hrows, units) ==
    IF hrows = <<>> THEN <<>>
    ELSE OverlayRow(hrows[1], units, 1) \o OverlayRows(Tail(hrows), units)

\* gpd.overlay(ch_shp, ad_geo, how="intersection") (line 454): one row per
\* pair of a hazard row and a unit row that share area, with that area.
overlay(df, units) ==
    [crs |-> df.crs,
     columns |-> {"id", "unit_id", "geometry"},
     rows |-> OverlayRows(df.rows, units.rows)]

\* A raster is a record: crs; extent, the cells it has; nodata, the cells of
\* the extent that hold no value; data, the value of every cell.
\* A statistic is a number or not-a-number.
Number(n) == [nan |-> FALSE, v |-> n]
NotANumber == [nan |-> TRUE, v |-> 0]

\* The cells of the geometry g the raster has a value for.
Covered(r, g) == (g \cap r.extent) \ r.nodata

\* exact_extract(raster, geometries, op) for one geometry: the values of the
\* covered cells weighted by the covered fraction of each (a geometry covers
\* whole cells here), summed; the mean has no value without covered cells.
exact_extract(r, g, op) ==
    LET cov == Covered(r, g)
        total == SumOver(cov, r.data)
    IN  IF op = "sum" THEN Number(total)
        ELSE IF cov = {} THEN NotANumber
        ELSE Number(total \div Cardinality(cov))

\* The aggregator asking for the mean where the sum is meant.
mask_raster_partial_pixel_mean(df, raster) ==
    [crs |-> "EPSG:4326",
     columns |-> df.columns \cup {"num_people_affected"},
     rows |-> [i \in DOMAIN df.rows |->
                 [k \in DOMAIN df.rows[i] \cup {"num_people_affected"} |->
                     IF k = "num_people_affected"
                     THEN exact_extract(raster, df.rows[i].geometry, "mean")
                     ELSE df.rows[i][k]]]]

\* lines 311-332: the frame is taken to the raster's crs, every geometry gets
\* its "sum" from exact_extract as num_people_affected, and the frame goes
\* back to EPSG:4326.
mask_raster_partial_pixel(df, raster) ==
    [crs |-> "EPSG:4326",
     columns |-> df.columns \cup {"num_people_affected"},
     rows |-> [i \in DOMAIN df.rows |->
                 [k \in DOMAIN df.rows[i] \cup {"num_people_affected"} |->
                     IF k = "num_people_affected"
                     THEN exact_extract(raster, df.rows[i].geometry, "sum")
                     ELSE df.rows[i][k]]]]

\* The final selection of columns (lines 367, 465, 485).
SelectResult(df, cols) ==
    [i \in DOMAIN df.rows |-> [k \in cols |-> df.rows[i][k]]]

\* ------------------------------------------------------------- state
VARIABLES
    lat, lon, utm_ret,           \* the projection selector: arguments, return
    m_in, m_out, m_again, m_pc,  \* the overlap merger: argument, result,
                                 \* result on its own result, position
    wf,                \* the workflow that runs
    by_unique_hazard,  \* its flag
    hazard_file,       \* the hazard file at path_to_hazards
    unit_file,         \* the spatial-unit file at path_to_additional_geos
    raster,            \* the population raster at raster_path
    pc,                \* the position of the workflow
    ch_df,             \* the hazard frame (later the hazard-by-unit pieces)
    ad_geo,            \* the spatial-unit frame
    log,               \* the stages run so far, in order
    result,            \* the rows the workflow returns
    src                \* the raster file handle of the aggregator

utmVars == <<lat, lon, utm_ret>>
mergerVars == <<m_in, m_out, m_again, m_pc>>
inputVars == <<wf, by_unique_hazard, hazard_file, unit_file, raster>>
flowVars == <<wf, by_unique_hazard, hazard_file, unit_file, raster,
              pc, ch_df, ad_geo, log, result, src>>
vars == <<lat, lon, utm_ret, m_in, m_out, m_again, m_pc,
          wf, by_unique_hazard, hazard_file, unit_file, raster,
          pc, ch_df, ad_geo, log, result, src>>

NoFrame == [crs |-> "none", columns |-> {}, rows |-> <<>>]
NoRaster == [crs |-> "none", extent |-> {}, nodata |-> {}, data |-> <<>>]

UtmIdle == lat = 0 /\ lon = 0 /\ utm_ret = [kind |-> "none"]
MergerIdle == m_in = <<>> /\ m_out = <<>> /\ m_again = <<>> /\ m_pc = "idle"
FlowIdle ==
    /\ wf = "none"
    /\ by_unique_hazard = FALSE
    /\ hazard_file = NoFrame
    /\ unit_file = NoFrame
    /\ raster = NoRaster
    /\ pc = "idle"
    /\ ch_df = NoFrame
    /\ ad_geo = NoFrame
    /\ log = <<>>
    /\ result = <<>>
    /\ src = "none"

\* ------------------------------------- specification: projection selector
Lats == (-90 - CoordOver) .. (90 + CoordOver)
Lons == (-180 - CoordOver) .. (180 + CoordOver)

InitUTM ==
    /\ lat \in Lats
    /\ lon \in Lons
    /\ utm_ret = [kind |-> "none"]
    /\ MergerIdle
    /\ FlowIdle

CallGetBestUtmProjection ==
    /\ utm_ret.kind = "none"
    /\ m_pc = "idle"
    /\ utm_ret' = get_best_utm_projection(lat, lon)
    /\ UNCHANGED <<lat, lon, mergerVars, flowVars>>

NextUTM == CallGetBestUtmProjection

SpecUTM == InitUTM /\ [][NextUTM]_vars

\* ----------------------------------------- specification: overlap merger
\* The geometries a row may hold: one cell, or two cells (one part when they
\* share an edge, two parts when they share a corner or nothing).
InputGeoms == {{c, d} : c, d \in Cells}

\* The frames given to the merger: one to Len(Ids) rows, row i with the
\* identifier Ids[i]; every geometry non-empty and valid.
InputFrames ==
    UNION {[1 .. n -> InputGeoms] : n \in 1 .. Len(Ids)}

InitMerger ==
    /\ \E f \in InputFrames :
          m_in = [i \in DOMAIN f |-> [id |-> <<Ids[i]>>, geometry |-> f[i]]]
    /\ m_out = <<>>
    /\ m_again = <<>>
    /\ m_pc = "input"
    /\ UtmIdle
    /\ FlowIdle

\* combine_overlapping_geometries(ch_df, id_column)
Combine ==
    /\ m_pc = "input"
    /\ m_out' = combine_overlapping_geometries(m_in)
    /\ m_pc' = "once"
    /\ UNCHANGED <<m_in, m_again, utmVars, flowVars>>

\* combine_overlapping_geometries on its own result
CombineAgain ==
    /\ m_pc = "once"
    /\ m_again' = combine_overlapping_geometries(m_out)
    /\ m_pc' = "twice"
    /\ UNCHANGED <<m_in, m_out, utmVars, flowVars>>

NextMerger == Combine \/ CombineAgain

SpecMerger == InitMerger /\ [][NextMerger]_vars

\* ------------------------------------------- specification: workflows
\* The geometries of a hazard file: none (an empty geometry) or one cell.
HazardGeoms == {{}} \cup {{c} : c \in Cells}

\* The hazard files: one to Len(HazardIds) rows, row i with the identifier
\* HazardIds[i], a geometry and a buffer distance; not in EPSG:4326.
HazardFiles ==
    {[crs |-> crs,
      columns |-> {"id", "buffer_dist", "geometry"},
      rows |-> [i \in DOMAIN g |->
                  [id |-> <<HazardIds[i]>>, buffer_dist |-> d[i], geometry |-> g[i]]]] :
        crs \in {"EPSG:3857"},
        g \in UNION {[1 .. n -> HazardGeoms] : n \in 1 .. Len(HazardIds)},
        d \in [1 .. Len(HazardIds) -> 0 .. MaxBufferDist]}

\* The spatial-unit files: two units that split the world at column k.
UnitFiles ==
    {[crs |-> "EPSG:4326",
      columns |-> {"id", "geometry"},
      rows |-> <<[id |-> <<"U1">>, geometry |-> {c \in Cells : c[1] < k}],
                 [id |-> <<"U2">>, geometry |-> {c \in Cells : c[1] >= k}]>>] :
        k \in 1 .. GridW - 1}

\* The rasters: column 0 of the world lies outside the raster's extent, one
\* column of the raster holds no data, every other cell a head count.
Rasters ==
    {[crs |-> "ESRI:54009",
      extent |-> {c \in Cells : c[1] >= 1},
      nodata |-> {c \in Cells : c[1] = nd},
      data |-> [c \in {e \in Cells : e[1] >= 1} |-> c[1] + c[2]]] :
        nd \in 1 .. GridW - 1}

Init ==
    /\ wf \in {"hazard", "hazard_by_geo", "residing"}
    /\ by_unique_hazard \in (IF wf = "residing" THEN {FALSE} ELSE BOOLEAN)
    /\ hazard_file \in (IF wf = "residing" THEN {NoFrame} ELSE HazardFiles)
    /\ unit_file \in (IF wf = "hazard" THEN {NoFrame} ELSE UnitFiles)
    /\ raster \in Rasters
    /\ pc = "start"
    /\ ch_df = NoFrame
    /\ ad_geo = NoFrame
    /\ log = <<>>
    /\ result = <<>>
    /\ src = "none"
    /\ UtmIdle
    /\ MergerIdle

\* prep_data, line 163 (and 435): prep_geographies(path_to_hazards, "hazard")
PrepHazards ==
    /\ pc = "start"
    /\ wf \in {"hazard", "hazard_by_geo"}
    /\ ch_df' = prep_geographies(hazard_file, "hazard")
    /\ log' = Append(log, "Normalizer")
    /\ pc' = "hazards_prepped"
    /\ UNCHANGED <<inputVars, ad_geo, result, utmVars, mergerVars, src>>

\* prep_data, line 166, and line 477:
\* prep_geographies(path_to_additional_geos, "spatial_unit")
PrepUnits ==
    /\ IF wf = "residing" THEN pc = "start"
       ELSE wf = "hazard_by_geo" /\ pc = "hazards_prepped"
    /\ ad_geo' = prep_geographies(unit_file, "spatial_unit")
    /\ log' = Append(log, "Normalizer")
    /\ pc' = "units_prepped"
    /\ UNCHANGED <<inputVars, ch_df, result, utmVars, mergerVars, src>>

\* prep_data, line 169: add_buffered_geom_col(ch_shp)
Buffer ==
    /\ IF wf = "hazard" THEN pc = "hazards_prepped"
       ELSE wf = "hazard_by_geo" /\ pc = "units_prepped"
    /\ ch_df' = add_buffered_geom_col(ch_df)
    /\ log' = Append(log, "Buffering")
    /\ pc' = "buffered"
    /\ UNCHANGED <<inputVars, ad_geo, result, utmVars, mergerVars, src>>

\* lines 352-355 and 441-444; selecting a column that does not exist raises
\* KeyError and ends the workflow.
Select ==
    /\ pc = "buffered"
    /\ IF "buffered_hazard" \in ch_df.columns
       THEN ch_df' = SelectBuffered(ch_df) /\ pc' = "selected"
       ELSE ch_df' = ch_df /\ pc' = "KeyError"
    /\ UNCHANGED <<inputVars, ad_geo, log, result, utmVars, mergerVars, src>>

\* lines 357-358 and 446-447
Merge ==
    /\ pc = "selected"
    /\ RunsMerger(by_unique_hazard)
    /\ ch_df' = [ch_df EXCEPT !.rows = combine_overlapping_geometries(ch_df.rows)]
    /\ log' = Append(log, "Merger")
    /\ pc' = "merged"
    /\ UNCHANGED <<inputVars, ad_geo, result, utmVars, mergerVars, src>>

\* What follows the merge no longer waits for it.
AfterMerge_unmerged == pc \in {"merged", "selected"}

\* The hazard frame is ready for what follows the optional merge.
AfterMerge ==
    \/ pc = "merged"
    \/ pc = "selected" /\ ~RunsMerger(by_unique_hazard)

\* lines 453-454
Overlay ==
    /\ wf = "hazard_by_geo"
    /\ AfterMerge
    /\ ch_df' = overlay(ch_df, ad_geo)
    /\ log' = Append(log, "Intersection")
    /\ pc' = "overlaid"
    /\ UNCHANGED <<inputVars, ad_geo, result, utmVars, mergerVars, src>>

\* lines 361, 457-459 and 480
BoundingBox ==
    /\ CASE wf = "hazard" -> AfterMerge
         [] wf = "hazard_by_geo" -> pc = "overlaid"
         [] wf = "residing" -> pc = "units_prepped"
         [] OTHER -> FALSE
    /\ IF wf = "residing"
       THEN ad_geo' = add_bounding_box_col(ad_geo) /\ ch_df' = ch_df
       ELSE ch_df' = add_bounding_box_col(ch_df) /\ ad_geo' = ad_geo
    /\ log' = Append(log, "BoundingWindow")
    /\ pc' = "boxed"
    /\ UNCHANGED <<inputVars, result, utmVars, mergerVars, src>>

\* The columns a workflow returns (lines 367, 465, 485).
ResultColumns ==
    IF wf = "hazard_by_geo" THEN {"id", "unit_id", "num_people_affected"}
    ELSE {"id", "num_people_affected"}

\* The frame the aggregator is given.
MaskFrame == IF wf = "residing" THEN ad_geo ELSE ch_df

\* The handle is closed only when the block ends without an exception.
WithExit_on_success_only(handle, ok) == IF ok THEN "closed" ELSE handle

\* line 314, "with rasterio.open(raster_path) as src": leaving the block
\* closes the handle, whether the block ended or raised.
WithExit(handle, ok) == "closed"

\* line 314: rasterio.open(raster_path) returns an open handle, or raises
\* and leaves none.
MaskOpen ==
    /\ pc = "boxed"
    /\ src = "none"
    /\ log' = Append(log, "Zonal")
    /\ \E ok \in BOOLEAN :
          IF ok THEN src' = "open" /\ pc' = "mask_open"
          ELSE src' = src /\ pc' = "RasterioIOError"
    /\ UNCHANGED <<inputVars, ch_df, ad_geo, result, utmVars, mergerVars>>

\* lines 315-317, the body of the with block and its end: the frame is
\* taken to the raster's crs when it is in another one, which may raise.
MaskAlign ==
    /\ pc = "mask_open"
    /\ \E ok \in (IF MaskFrame.crs # raster.crs THEN BOOLEAN ELSE {TRUE}) :
          /\ src' = WithExit(src, ok)
          /\ pc' = IF ok THEN "mask_aligned" ELSE "CRSError"
          /\ LET aligned == IF ok THEN [MaskFrame EXCEPT !.crs = raster.crs]
                            ELSE MaskFrame
             IN  IF wf = "residing"
                 THEN ad_geo' = aligned /\ ch_df' = ch_df
                 ELSE ch_df' = aligned /\ ad_geo' = ad_geo
    /\ UNCHANGED <<inputVars, log, result, utmVars, mergerVars>>

\* lines 319-332, then 364-370, 462-467 and 483-487: exact_extract reads the
\* raster from its path (it is not handed the handle src) and may raise; the
\* sums are stored, the frame goes back to EPSG:4326 and the workflow
\* returns its columns.
Mask ==
    /\ pc = "mask_aligned"
    /\ \E ok \in BOOLEAN :
          IF ok
          THEN LET masked == mask_raster_partial_pixel(MaskFrame, raster)
               IN  /\ IF wf = "residing"
                      THEN ad_geo' = masked /\ ch_df' = ch_df
                      ELSE ch_df' = masked /\ ad_geo' = ad_geo
                   /\ result' = SelectResult(masked, ResultColumns)
                   /\ pc' = "done"
          ELSE /\ pc' = "ExtractionError"
               /\ UNCHANGED <<ch_df, ad_geo, result>>
    /\ UNCHANGED <<inputVars, log, src, utmVars, mergerVars>>

Next ==
    \/ PrepHazards
    \/ PrepUnits
    \/ Buffer
    \/ Select
    \/ Merge
    \/ Overlay
    \/ BoundingBox
    \/ MaskOpen
    \/ MaskAlign
    \/ Mask

Spec == Init /\ [][Next]_vars

\* ------------------------------------------- claims: projection selector
InRange == lat \in -90 .. 90 /\ lon \in -180 .. 180

Returned == utm_ret.kind # "none"

\* C5: for every latitude in [-90,90] and longitude in [-180,180] the
\* selector returns hemisphere_base*100 + zone with zone =
\* floor((longitude+180)/6) + 1 in 1..60, the base being 326 exactly when
\* latitude >= 0 and 327 otherwise.
C5_ZoneIn1To60 ==
    (Returned /\ InRange) =>
        /\ utm_ret.kind = "ok"
        /\ \E zone \in 1 .. 60 :
              /\ zone = FloorDiv(lon + 180, 6) + 1
              /\ utm_ret.code = (IF lat >= 0 THEN 326 ELSE 327) * 100 + zone

\* C6: a call with a latitude outside [-90,90] or a longitude outside
\* [-180,180] is rejected with an InvalidCoordinate error and returns no
\* projection identifier.
C6_OutOfRangeRejected ==
    (Returned /\ ~InRange) =>
        /\ utm_ret.kind = "error"
        /\ utm_ret.error = "InvalidCoordinate"

\* ------------------------------------------------ claims: overlap merger
Merged == m_pc \in {"once", "twice"}

InputArea == UNION {m_in[i].geometry : i \in DOMAIN m_in}

SinglePart(g) == Len(GetParts(g)) = 1

\* The token t occurs in the identifier id.
HasToken(id, t) == \E k \in DOMAIN id : id[k] = t

RECURSIVE IdsIntersecting(_, _, _)
\* The identifiers of the rows of df, from row i on and in row order, whose
\* geometry intersects g.
IdsIntersecting(df, g, i) ==
    IF i > Len(df) THEN <<>>
    ELSE (IF Intersects(df[i].geometry, g) THEN <<df[i].id>> ELSE <<>>)
         \o IdsIntersecting(df, g, i + 1)

\* C1: the regions the merger returns are pairwise non-overlapping and cover
\* exactly the union of the input geometries: every cell of area of every
\* input lies in exactly one returned region and no region holds area
\* outside the inputs.
C1_PartitionOfInputArea ==
    Merged =>
        /\ \A i, j \in DOMAIN m_out :
              i # j => ~Overlaps(m_out[i].geometry, m_out[j].geometry)
        /\ \A c \in Cells :
              Cardinality({i \in DOMAIN m_out : c \in m_out[i].geometry})
                 = (IF c \in InputArea THEN 1 ELSE 0)

\* C1's case: two input rows overlap in area, a row has two parts, and the
\* merger returned more than one region.
C1_Witness ==
    /\ m_pc = "once"
    /\ Len(m_out) >= 2
    /\ \E i, j \in DOMAIN m_in :
          i # j /\ Overlaps(m_in[i].geometry, m_in[j].geometry)
    /\ \E i \in DOMAIN m_in : ~SinglePart(m_in[i].geometry)

\* C2: with three hazards A, B, C, the footprints of A and B intersecting
\* (overlapping, or only touching, a single shared boundary point included)
\* and C disjoint from both, the merger returns exactly two regions: one whose
\* id contains A's and B's ids and one whose id is exactly C's id.
C2_TouchingPairAndOutsider ==
    (/\ m_pc = "once"
     /\ Len(m_in) = 3
     /\ \A i \in DOMAIN m_in : SinglePart(m_in[i].geometry)
     /\ Intersects(m_in[1].geometry, m_in[2].geometry)
     /\ ~Intersects(m_in[3].geometry, m_in[1].geometry)
     /\ ~Intersects(m_in[3].geometry, m_in[2].geometry))
    => /\ Len(m_out) = 2
       /\ \E i, j \in DOMAIN m_out :
             /\ i # j
             /\ HasToken(m_out[i].id, Ids[1])
             /\ HasToken(m_out[i].id, Ids[2])
             /\ m_out[j].id = m_in[3].id

\* C3: the merger applied to its own result returns the same set of regions,
\* each with the same id and the same geometry.
C3_Idempotent ==
    m_pc = "twice" =>
        {m_again[i] : i \in DOMAIN m_again} = {m_out[i] : i \in DOMAIN m_out}

\* C4: every returned region touched by only one original identifier carries
\* exactly that identifier, with no separator injected, also when that
\* identifier is a multi-part geometry split into rows sharing the id.
C4_LoneIdentifierUnchanged ==
    Merged =>
        \A n \in DOMAIN m_out :
            LET touching == {m_in[i].id : i \in
                               {k \in DOMAIN m_in :
                                  Intersects(m_in[k].geometry, m_out[n].geometry)}}
            IN  Cardinality(touching) = 1 => m_out[n].id \in touching

\* C9: the id of every returned region is the ids of the input geometries
\* that intersect the region, each once, joined with "___" in the order the
\* inputs were given.
C9_IdIsIntersectingInputsInOrder ==
    Merged =>
        \A n \in DOMAIN m_out :
            m_out[n].id = StrJoin(IdsIntersecting(m_in, m_out[n].geometry, 1))

\* ----------------------------------------------------- claims: workflows
\* The stage st is in the log.
Ran(st) == \E k \in DOMAIN log : log[k] = st

\* The stage st is in the log before position j.
RanBefore(st, j) == \E k \in DOMAIN log : k < j /\ log[k] = st

\* The rows of the hazard file that have a geometry, in order.
Hazards == DropEmpty(hazard_file.rows)

\* The buffered footprint of the hazard row h.
Footprint(h) == Dilate(h.geometry, h.buffer_dist)

\* The identifiers joined in the merged identifier id.
SourceIds(id) == {<<id[k]>> : k \in {n \in DOMAIN id : <<id[n]>> # SEP}}

\* C7: in the hazard-only workflow by_unique_hazard alone decides whether the
\* merger runs.  Set, the merger is never run and the result has one row per
\* input hazard with a non-empty geometry, keyed by its own id, also when
\* buffered footprints overlap; unset, the result has one row per merged
\* region, keyed by the merged id.
C7_FlagDecidesMerging ==
    (wf = "hazard" /\ pc = "done") =>
        IF by_unique_hazard
        THEN /\ ~Ran("Merger")
             /\ [i \in DOMAIN result |-> result[i].id]
                   = [i \in DOMAIN Hazards |-> Hazards[i].id]
        ELSE /\ Ran("Merger")
             /\ Len(result)
                   = Len(GetParts(UNION {Footprint(Hazards[i]) : i \in DOMAIN Hazards}))
             /\ \A n \in DOMAIN result :
                   /\ result[n].id = ch_df.rows[n].id
                   /\ SourceIds(result[n].id)
                         = {Hazards[i].id : i \in
                              {k \in DOMAIN Hazards :
                                 Intersects(Footprint(Hazards[k]),
                                            ch_df.rows[n].geometry)}}

\* C7's case: the flag is set, two hazards' buffered footprints overlap, and
\* the workflow returned its rows.
C7_Witness ==
    /\ wf = "hazard"
    /\ pc = "done"
    /\ by_unique_hazard
    /\ Len(Hazards) = 2
    /\ Hazards[1].buffer_dist > 0
    /\ Overlaps(Footprint(Hazards[1]), Footprint(Hazards[2]))
    /\ Len(result) = 2

\* The frame the aggregator returned.
Masked == IF wf = "residing" THEN ad_geo ELSE ch_df

Rank(st) ==
    CASE st = "Normalizer" -> 1
      [] st = "Buffering" -> 2
      [] st = "Merger" -> 3
      [] st = "Intersection" -> 4
      [] st = "BoundingWindow" -> 5
      [] st = "Zonal" -> 6

\* What C10 says beside "at most once each, in order": the aggregator is
\* last, nothing is merged before the hazards are buffered, nothing is
\* aggregated before the bounding windows are built, the hazard-by-unit
\* workflow intersects only after the optional merge, and the
\* resident-population workflow neither buffers nor merges.
StageDependencies ==
    /\ \A j \in DOMAIN log :
          /\ log[j] = "Zonal" => j = Len(log) /\ RanBefore("BoundingWindow", j)
          /\ log[j] = "Merger" => RanBefore("Buffering", j)
          /\ log[j] = "Intersection" =>
                /\ wf = "hazard_by_geo"
                /\ ~by_unique_hazard => RanBefore("Merger", j)
    /\ pc = "merged" =>
          unary_union(ch_df.rows)
             = UNION {Footprint(Hazards[i]) : i \in DOMAIN Hazards}
    /\ wf = "residing" => ~Ran("Buffering") /\ ~Ran("Merger")
    /\ wf = "hazard" => ~Ran("Intersection")

\* C10 as stated: in each workflow every stage runs at most once and the
\* stages run strictly in the order Normalizer, Buffering Engine, Overlap
\* Merger, Bounding Window Builder, Zonal Aggregator, with the dependencies
\* above.
C10_EachStageOnceInOrder ==
    /\ \A i, j \in DOMAIN log : i < j => Rank(log[i]) < Rank(log[j])
    /\ StageDependencies

\* C10 as amended: every stage but the Normalizer runs at most once; the
\* Normalizer runs once per input file, so twice in the hazard-by-unit
\* workflow (hazards, then spatial units, both before the Buffering Engine)
\* and once in the other two; the stages run in the order Normalizer,
\* Buffering Engine, Overlap Merger, Bounding Window Builder, Zonal
\* Aggregator, with the dependencies above.
C10_StagesInOrderNormalizerPerFile ==
    /\ \A i, j \in DOMAIN log :
          i < j =>
             \/ Rank(log[i]) < Rank(log[j])
             \/ /\ log[i] = "Normalizer"
                /\ log[j] = "Normalizer"
                /\ wf = "hazard_by_geo"
    /\ Cardinality({k \in DOMAIN log : log[k] = "Normalizer"}) <= 2
    /\ StageDependencies

\* C10's case: the hazard-by-unit workflow has run every stage, the merger
\* included, and returned.
C10_Witness ==
    /\ wf = "hazard_by_geo"
    /\ pc = "done"
    /\ log = <<"Normalizer", "Normalizer", "Buffering", "Merger",
               "Intersection", "BoundingWindow", "Zonal">>

\* The aggregator has been left: it returned, or it raised.
AggregatorLeft ==
    pc \in {"done", "RasterioIOError", "CRSError", "ExtractionError"}

\* C11: every raster file handle the aggregator opens is released on every
\* exit path, the paths where reprojection or extraction fails included: the
\* handle is open only inside the with block, and once the aggregator has
\* returned or raised no handle is open.
C11_HandleReleasedOnEveryExit ==
    /\ src = "open" => pc = "mask_open"
    /\ AggregatorLeft => src # "open"
    /\ pc \in {"mask_aligned", "done", "CRSError", "ExtractionError"}
          => src = "closed"

\* C11's case: the handle was opened and the reprojection inside the with
\* block raised.
C11_Witness == pc = "CRSError" /\ src = "closed" /\ Ran("Zonal")
====
